---- MODULE Spec2Model ----
(***************************************************************************)
(* The lineage store of the Whisper Remix Hub, in its three storage        *)
(* variants:                                                               *)
(*   "file"      whispers_campaign.py     one JSON file, loaded whole at   *)
(*                                        the start of every script run    *)
(*                                        and rewritten whole on a save    *)
(*   "firestore" whispers_campaign_v1.py  one Firestore document per node, *)
(*                                        with a session-local in-memory   *)
(*                                        map used once a call has failed  *)
(*   "supabase"  whispers_supabase.py     one table row per node, over REST*)
(* A session is one browser session of the Streamlit app; a script run     *)
(* serves one request (create, remix or view).  Runs of different sessions *)
(* interleave at their storage calls.                                      *)
(*                                                                         *)
(* Text is a sequence of one-character strings.  Spaces are the only       *)
(* whitespace of the alphabet; the arrow of the separator is written ">".  *)
(***************************************************************************)
EXTENDS Integers, Sequences, FiniteSets, TLC

\* ------------------------------------------------------------------ bounds
\* Ids that uuid4 hands out in one behaviour (1..MaxIds, each drawn once).
MaxIds == 3

\* Ids handed out in a behaviour of the single-session specification.
MaxSoloIds == 2

Ids == 1..MaxIds
Sessions == {"s1", "s2"}
Backends == {"file", "firestore", "supabase"}

\* Python's None as the value of a text field (also of a key a record lacks, as
\* .get returns it).
None == <<"NONE">>
\* None where an id stands: the parent of a root, the id of a message that names
\* no node.
NoId == 0
\* None where a record stands: what a lookup that finds nothing returns.
NoNode == [id |-> NoId, message |-> None, motif |-> None, phrase |-> None,
           parent |-> NoId, children |-> <<>>, author |-> None]

\* ------------------------------------------------------------------ inputs
\* What the forms hand to the handlers.  The concurrent specification draws from
\* the plain sets, the single-session one from the full sets.
Motifs == {<<>>, <<" ">>, <<"m">>}
Phrases == {<<>>, <<" ">>, <<"p">>}
Authors == {<<>>, <<" ", "a">>}
Continuations == {<<>>, <<" ">>, <<"c">>, <<" ", "c">>}

PlainMotifs == {<<"m">>}
PlainPhrases == {<<>>, <<" ">>, <<"p">>}
PlainAuthors == {<<>>}
PlainContinuations == {<<>>, <<"c">>}

\* ------------------------------------------------------------------ text
RECURSIVE LStrip(_)
LStrip(t) == IF t # <<>> /\ Head(t) = " " THEN LStrip(Tail(t)) ELSE t

RECURSIVE RStrip(_)
RStrip(t) ==
    IF t # <<>> /\ t[Len(t)] = " " THEN RStrip(SubSeq(t, 1, Len(t) - 1)) ELSE t

\* str.strip()
Strip(t) == RStrip(LStrip(t))

\* The remix separator " -> " of the three variants.
Separator == <<" ", ">", " ">>

\* whispers_campaign.py: build_whisper_message(motif, phrase)
build_whisper_message(motif, phrase) ==
    LET m == Strip(motif)
        p == Strip(phrase)
    IN  IF m # <<>> /\ p # <<>> THEN m \o <<" ">> \o p
        ELSE IF m # <<>> THEN m
        ELSE p

\* whispers_supabase.py: build_whisper_message(parent_message, new_phrase)
supabase_build_whisper_message(parent_message, new_phrase) ==
    LET m == Strip(parent_message)
        p == Strip(new_phrase)
    IN  IF m # <<>> /\ p # <<>> THEN m \o Separator \o p
        ELSE IF m # <<>> THEN m
        ELSE p

\* ------------------------------------------------------------------ stores
\* A store maps the ids it holds to their records.
EmptyStore == [i \in {} |-> NoNode]

Has(st, wid) == wid \in DOMAIN st

\* dict.get(wid)
Lookup(st, wid) == IF Has(st, wid) THEN st[wid] ELSE NoNode

\* st[node.id] = node
Put(st, node) ==
    [i \in DOMAIN st \cup {node.id} |-> IF i = node.id THEN node ELSE st[i]]

Contains(seq, x) == \E i \in 1..Len(seq) : seq[i] = x

Count(seq, x) == Cardinality({i \in 1..Len(seq) : seq[i] = x})

\* A children write that replaces the whole record by one holding the list alone
\* (a document .set where .update was meant).
ReplaceByChildren(st, wid, kids) ==
    [st EXCEPT ![wid] = [NoNode EXCEPT !.id = wid, !.children = kids]]

SetChildren(st, wid, kids) == [st EXCEPT ![wid].children = kids]

\* A children display that shows every entry, resolved or not.
AllListed(kids, st) == kids

\* The loop over a children list: `for cid in kids: child = get(cid); if not
\* child: continue; show child`.  The ids of the children shown, st being what
\* the gets answer from.
RECURSIVE Resolved(_, _)
Resolved(kids, st) ==
    IF kids = <<>> THEN <<>>
    ELSE (IF Has(st, Head(kids)) THEN <<Head(kids)>> ELSE <<>>)
         \o Resolved(Tail(kids), st)

\* ------------------------------------------------------------------ trail records
\* whispers_v13.py keeps a list of whisper records and a library of motifs.  A
\* motif tag is a name with an optional number after it (name "c" stands for the
\* camera emoji that tags images, "t" for the thread emoji).
\* gap is the number of blanks between the characters of the tag.
Tag(name, num) == [name |-> name, num |-> num, gap |-> 0]
NoNum == 0
Thread == Tag("t", NoNum)
Camera == Tag("c", NoNum)
\* None where a tag stands.
NoTag == Tag("NONE", NoNum)

\* A library entry.
Entry(meaning, image, format) == [meaning |-> meaning, image |-> image, format |-> format]

\* The library safe_load falls back to when there is no file (the thread motif
\* stands for the eight built-in ones).
DefaultMotifs == [k \in {Thread} |-> Entry(<<"t", "h">>, None, None)]

\* dict.get(key, default)
Get(w, key, default) == IF key \in DOMAIN w THEN w[key] ELSE default

\* dict.pop(key, None) for every key in keys
Pop(w, keys) == [k \in DOMAIN w \ keys |-> w[k]]

\* d[key] = value
Set(d, key, value) == [k \in DOMAIN d \cup {key} |-> IF k = key THEN value ELSE d[k]]

\* isinstance(v, str), isinstance(v, dict): a JSON string is held as [str |-> text],
\* a JSON value that is neither string nor object as [other |-> TRUE]
IsStr(v) == "str" \in DOMAIN v
IsDict(v) == "str" \notin DOMAIN v /\ "other" \notin DOMAIN v

\* Truth of a text-or-None value: None and "" are false.
Truthy(x) == x # None /\ x # <<>>

\* datetime.now() formatted: the one clock reading of a behaviour
Now == <<"n", "o", "w">>

\* normalize_motifs(m_dict)
normalize_motifs(m_dict) ==
    [k \in DOMAIN m_dict |->
       LET v == m_dict[k]
       IN  IF IsStr(v) THEN Entry(v.str, None, None)
           ELSE IF IsDict(v)
           THEN Entry(Get(v, "meaning", <<"c", "u", "s", "t", "o", "m">>),
                      Get(v, "image", None), Get(v, "format", None))
           ELSE Entry(<<"c", "u", "s", "t", "o", "m">>, None, None)]

\* max(highest, n) over the keys base + digits
RECURSIVE Highest(_, _)
Highest(nums, highest) ==
    IF nums = {} THEN highest
    ELSE LET n == CHOOSE x \in nums : TRUE
         IN  Highest(nums \ {n}, IF n > highest THEN n ELSE highest)

\* generate_image_motif_tag(m_dict), base the camera emoji
generate_image_motif_tag(m_dict) ==
    IF Camera \notin DOMAIN m_dict THEN Camera
    ELSE Tag("c", Highest({k.num : k \in {j \in DOMAIN m_dict : j.name = "c" /\ j.num # NoNum /\ j.gap = 0}}, 1) + 1)

\* normalize_trail, lines 91-101: the record rebuilt with every key
Fixed9(w) ==
    [motif |-> Get(w, "motif", Thread),
     message |-> Get(w, "message", <<>>),
     link |-> Get(w, "link", <<>>),
     author |-> Get(w, "author", <<"A", "n", "o", "n">>),
     timestamp |-> Get(w, "timestamp", Now),
     remix |-> Get(w, "remix", <<"O", "r", "i", "g">>),
     image |-> Get(w, "image", None),
     image_format |-> Get(w, "image_format", None),
     image_motif |-> Get(w, "image_motif", NoTag)]

\* normalize_trail, lines 103-105: the library with the record's motif in it
WithMotif(motifs, fixed) ==
    IF fixed.motif \notin DOMAIN motifs
    THEN Set(motifs, fixed.motif, Entry(<<"r", "e", "s", "t">>, None, None))
    ELSE motifs

\* normalize_trail, line 107: the record carries an inline image to migrate
Migrates(fixed) == Truthy(fixed.image) /\ fixed.image_motif = NoTag

\* normalize_trail(trail_list, motifs), the loop from entry i on: repaired,
\* motifs and changed as they stand after the last entry
RECURSIVE normalize_from(_, _, _, _, _)
normalize_from(trail_list, i, repaired, motifs, changed) ==
    IF i > Len(trail_list)
    THEN [trail |-> repaired, motifs |-> motifs, changed |-> changed]
    ELSE IF ~IsDict(trail_list[i])
    THEN normalize_from(trail_list, i + 1, repaired, motifs, changed)
    ELSE LET fixed == Fixed9(trail_list[i])
             motifs1 == WithMotif(motifs, fixed)
             tag == generate_image_motif_tag(motifs1)
         IN  IF Migrates(fixed)
             THEN normalize_from(trail_list, i + 1,
                    Append(repaired,
                           Pop([fixed EXCEPT !.image_motif = tag], {"image", "image_format"})),
                    Set(motifs1, tag, Entry(<<"m", "i", "g">>, fixed.image, fixed.image_format)),
                    TRUE)
             ELSE normalize_from(trail_list, i + 1, Append(repaired, fixed), motifs1,
                                 changed \/ motifs1 # motifs)

normalize_trail(trail_list, motifs) == normalize_from(trail_list, 1, <<>>, motifs, FALSE)

\* ------------------------------------------------------------------ state
VARIABLES
    backend,  \* the storage variant this deployment runs
    store,    \* the durable store: the JSON file, the Firestore collection, the table
    local,    \* per session: the run's loaded `whispers` dict (file variant),
              \* st.session_state.local_whispers (firestore variant)
    avail,    \* per session: firestore_available of the current run
    pc,       \* per session: where its current script run stands
    cur,      \* per session: the locals of the current run
    shown,    \* what the latest step showed its user, if it ended a run
    nextId,   \* the next id new_id() returns
    acked,    \* history: the <<parent, child>> of every remix that ended in plain success
    trail_file,  \* whispers_v13.py: whisper_trail.json, a list of records
    motif_file   \* whispers_v13.py: motif_library.json, motif tag -> entry

vars == <<backend, store, local, avail, pc, cur, shown, nextId, acked, trail_file, motif_file>>

NoCur == [op |-> "remix", wid |-> NoId, w |-> NoNode, cont |-> <<>>, author |-> <<>>,
          child |-> NoId, parent |-> NoNode, msgs |-> {}]

\* What a run shows when it ends: the messages (st.success, st.error, st.warning),
\* the node it is about, of a remix the parent, and of a view the ids of the
\* children it lists.
NoResp == [s |-> "none", op |-> "none", msgs |-> {}, id |-> NoId, parent |-> NoId,
           kids |-> <<>>]

Resp(op, msgs, id, parent) ==
    [s |-> "none", op |-> op, msgs |-> msgs, id |-> id, parent |-> parent, kids |-> <<>>]

Init ==
    /\ backend \in Backends
    /\ store = EmptyStore
    /\ local = [s \in Sessions |-> EmptyStore]
    /\ avail = [s \in Sessions |-> TRUE]
    /\ pc = [s \in Sessions |-> "idle"]
    /\ cur = [s \in Sessions |-> NoCur]
    /\ shown = NoResp
    /\ nextId = 1
    /\ acked = {}
    /\ trail_file = <<>>
    /\ motif_file = DefaultMotifs

\* The run of session s ends, showing r.
Finish(s, r) ==
    /\ pc' = [pc EXCEPT ![s] = "idle"]
    /\ cur' = [cur EXCEPT ![s] = NoCur]
    /\ avail' = [avail EXCEPT ![s] = TRUE]
    /\ shown' = [r EXCEPT !.s = s]
    /\ acked' = IF r.op = "remix" /\ r.msgs = {"success"}
                THEN acked \cup {<<r.parent, r.id>>}
                ELSE acked
    /\ UNCHANGED <<trail_file, motif_file>>

\* The run of session s goes on at `at` with locals c.
Goto(s, at, c) ==
    /\ pc' = [pc EXCEPT ![s] = at]
    /\ cur' = [cur EXCEPT ![s] = c]
    /\ shown' = NoResp
    /\ UNCHANGED <<acked, trail_file, motif_file>>

\* ------------------------------------------------------------------ file variant
\* A root record that stores the motif trimmed.
TrimmedRootNode(wid, message, motif, phrase, author) ==
    [id |-> wid, message |-> message, motif |-> Strip(motif), phrase |-> phrase,
     parent |-> NoId, children |-> <<>>,
     author |-> IF author # <<>> THEN Strip(author) ELSE None]

\* whispers_campaign.py: the record the create handler stores
FileRootNode(wid, message, motif, phrase, author) ==
    [id |-> wid, message |-> message, motif |-> motif, phrase |-> phrase,
     parent |-> NoId, children |-> <<>>,
     author |-> IF author # <<>> THEN Strip(author) ELSE None]

\* A remix message composed without the separator.
JoinedMessage(w, continuation) == w.message \o continuation

\* whispers_campaign.py: the message of a remix of w
FileRemixMessage(w, continuation) == w.message \o Separator \o continuation

\* A remix record that names itself as its parent.
SelfParentNode(new_wid, w, wid, continuation, remix_author) ==
    [id |-> new_wid, message |-> w.message \o Separator \o continuation,
     motif |-> w.motif, phrase |-> None,
     parent |-> new_wid, children |-> <<>>,
     author |-> IF Strip(remix_author) # <<>> THEN Strip(remix_author) ELSE None]

\* whispers_campaign.py: the record render_detail stores for a remix of w
FileRemixNode(new_wid, w, wid, continuation, remix_author) ==
    [id |-> new_wid, message |-> FileRemixMessage(w, continuation),
     motif |-> w.motif, phrase |-> None,
     parent |-> wid, children |-> <<>>,
     author |-> IF Strip(remix_author) # <<>> THEN Strip(remix_author) ELSE None]

\* whispers[wid]["children"].append(new_wid)
FileAppendChild(whispers, wid, new_wid) ==
    SetChildren(whispers, wid, Append(whispers[wid].children, new_wid))

\* whispers = load_whispers(): the whole file, or {} when it cannot be read
load_whispers(s) ==
    /\ backend = "file"
    /\ pc[s] = "idle"
    /\ \E readable \in BOOLEAN :
         local' = [local EXCEPT ![s] = IF readable THEN store ELSE EmptyStore]
    /\ Goto(s, "loaded", NoCur)
    /\ UNCHANGED <<backend, store, avail, nextId>>

\* save_whispers(whispers), then the end of the run: the file is rewritten whole.
save_whispers(s, whispers, op, wid, parent) ==
    /\ store' = whispers
    /\ Finish(s, Resp(op, {"success"}, wid, parent))
    /\ local' = [local EXCEPT ![s] = EmptyStore]
    /\ nextId' = nextId + 1

\* st.error(...), nothing saved
FileReject(s, op, msg) ==
    /\ Finish(s, Resp(op, {msg}, NoId, NoId))
    /\ local' = [local EXCEPT ![s] = EmptyStore]
    /\ UNCHANGED <<store, nextId>>

\* the "Create whisper" handler
FileCreate(s, motif, phrase, author) ==
    /\ backend = "file"
    /\ pc[s] = "loaded"
    /\ LET message == Strip(build_whisper_message(motif, phrase))
       IN  IF message = <<>>
           THEN FileReject(s, "create", "invalid")
           ELSE /\ nextId <= MaxIds
                /\ save_whispers(s, Put(local[s], FileRootNode(nextId, message, motif, phrase, author)),
                                 "create", nextId, NoId)
    /\ UNCHANGED <<backend, avail>>

\* whether render_detail finds wid (file variant: in the dict this run loaded)
FileFound(whispers, wid) == Has(whispers, wid)

\* render_detail(wid) with "Submit remix" pressed
FileRemix(s, wid, remix_add, remix_author) ==
    /\ backend = "file"
    /\ pc[s] = "loaded"
    /\ LET whispers == local[s]
           continuation == Strip(remix_add)
       IN  IF ~FileFound(whispers, wid)
           THEN FileReject(s, "remix", "notfound")
           ELSE IF continuation = <<>>
           THEN FileReject(s, "remix", "invalid")
           ELSE /\ nextId <= MaxIds
                /\ save_whispers(s,
                     FileAppendChild(
                       Put(whispers, FileRemixNode(nextId, whispers[wid], wid,
                                                   continuation, remix_author)),
                       wid, nextId),
                     "remix", nextId, wid)
    /\ UNCHANGED <<backend, avail>>

\* render_detail(wid) with no button pressed
FileView(s, wid) ==
    /\ backend = "file"
    /\ pc[s] = "loaded"
    /\ IF FileFound(local[s], wid)
       THEN Finish(s, [Resp("view", {"shown"}, wid, NoId) EXCEPT
                         !.kids = Resolved(local[s][wid].children, local[s])])
       ELSE Finish(s, Resp("view", {"notfound"}, NoId, NoId))
    /\ local' = [local EXCEPT ![s] = EmptyStore]
    /\ UNCHANGED <<backend, store, nextId>>

\* ------------------------------------------------------------------ firestore variant
\* whispers_campaign_v1.py: the message render_home composes
FsRootMessage(motif, phrase) == Strip(motif \o <<" ">> \o phrase)

\* whispers_campaign_v1.py: the record render_home stores
FsRootNode(wid, message, motif, phrase, author) ==
    [id |-> wid, message |-> message, motif |-> motif, phrase |-> phrase,
     parent |-> NoId, children |-> <<>>,
     author |-> IF author # <<>> THEN author ELSE None]

\* A remix record that leaves the motif out.
FsBareRemixNode(new_wid, w, wid, remix_add, remix_author) ==
    [id |-> new_wid, message |-> w.message \o Separator \o Strip(remix_add),
     motif |-> None, phrase |-> None,
     parent |-> wid, children |-> <<>>,
     author |-> IF remix_author # <<>> THEN remix_author ELSE None]

\* whispers_campaign_v1.py: the record render_detail stores for a remix of w
\* (it has no "phrase" key)
FsRemixNode(new_wid, w, wid, remix_add, remix_author) ==
    [id |-> new_wid, message |-> w.message \o Separator \o Strip(remix_add),
     motif |-> w.motif, phrase |-> None,
     parent |-> wid, children |-> <<>>,
     author |-> IF remix_author # <<>> THEN remix_author ELSE None]

\* get_whisper(wid): from Firestore while it answers (up), else from the
\* session's local map
get_whisper(s, wid, up) == IF up THEN Lookup(store, wid) ELSE Lookup(local[s], wid)

\* save_whisper(data): into Firestore while it answers, else into the local map
save_whisper(s, data, up) ==
    IF up
    THEN store' = Put(store, data) /\ UNCHANGED local
    ELSE local' = [local EXCEPT ![s] = Put(local[s], data)] /\ UNCHANGED store

\* A link step that appends without looking.
AppendAlways(children, child_id) == Append(children, child_id)

\* update_children, lines 104-107: the children list with child_id in it
WithChild(children, child_id) ==
    IF Contains(children, child_id) THEN children ELSE Append(children, child_id)

\* The warning _fallback_to_local shows when a call fails in a run that still
\* held Firestore available (or the one the failed initialisation shows).
Warned(was, ok) == IF was /\ ~ok THEN {"warning"} ELSE {}

\* render_home with "Create whisper" pressed.  `up`: the initialisation found
\* Firestore and the write reached it.
FsCreate(s, motif, phrase, author) ==
    /\ backend = "firestore"
    /\ pc[s] = "idle"
    /\ IF phrase = <<>> /\ motif = <<>>
       THEN /\ Finish(s, Resp("create", {"invalid"}, NoId, NoId))
            /\ UNCHANGED <<store, local, nextId>>
       ELSE /\ nextId <= MaxIds
            /\ \E up \in BOOLEAN :
                 /\ save_whisper(s, FsRootNode(nextId, FsRootMessage(motif, phrase),
                                               motif, phrase, author), up)
                 /\ Finish(s, Resp("create", Warned(TRUE, up) \cup {"success"}, nextId, NoId))
            /\ nextId' = nextId + 1
    /\ UNCHANGED backend

\* render_detail, lines 237-241: the children shown when the first `reached`
\* gets are answered by Firestore and the later ones by the session's map (a
\* get that fails switches the run to the map for good)
FsResolved(s, kids, reached) ==
    Resolved(SubSeq(kids, 1, reached), store)
      \o Resolved(SubSeq(kids, reached + 1, Len(kids)), local[s])

\* render_detail(wid), no button pressed
FsView(s, wid) ==
    /\ backend = "firestore"
    /\ pc[s] = "idle"
    /\ \E up \in BOOLEAN :
         LET w == get_whisper(s, wid, up)
         IN  IF w = NoNode
             THEN Finish(s, Resp("view", Warned(TRUE, up) \cup {"notfound"}, NoId, NoId))
             ELSE \E reached \in 0..Len(w.children) :
                    /\ ~up => reached = 0
                    /\ Finish(s, [Resp("view",
                                       Warned(TRUE, up /\ reached = Len(w.children))
                                         \cup {"shown"}, wid, NoId)
                                    EXCEPT !.kids = FsResolved(s, w.children, reached)])
    /\ UNCHANGED <<backend, store, local, nextId>>

\* render_detail(wid) with "Submit remix" pressed, up to the check of the
\* continuation
FsRemix(s, wid, remix_add, remix_author) ==
    /\ backend = "firestore"
    /\ pc[s] = "idle"
    /\ \E up \in BOOLEAN :
         LET w == get_whisper(s, wid, up)
         IN  IF w = NoNode
             THEN Finish(s, Resp("remix", Warned(TRUE, up) \cup {"notfound"}, NoId, NoId))
             ELSE IF Strip(remix_add) = <<>>
             THEN Finish(s, Resp("remix", Warned(TRUE, up) \cup {"invalid"}, NoId, NoId))
             ELSE /\ Goto(s, "save", [NoCur EXCEPT !.wid = wid, !.w = w, !.cont = remix_add,
                                        !.author = remix_author, !.msgs = Warned(TRUE, up)])
                  /\ avail' = [avail EXCEPT ![s] = up]
    /\ UNCHANGED <<backend, store, local, nextId>>

\* save_whisper(remix)
FsSave(s) ==
    /\ backend = "firestore"
    /\ pc[s] = "save"
    /\ nextId <= MaxIds
    /\ \E ok \in BOOLEAN :
         LET up == avail[s] /\ ok
             c == cur[s]
         IN  /\ save_whisper(s, FsRemixNode(nextId, c.w, c.wid, c.cont, c.author), up)
             /\ avail' = [avail EXCEPT ![s] = up]
             /\ Goto(s, "link_read", [c EXCEPT !.child = nextId,
                                        !.msgs = @ \cup Warned(avail[s], ok)])
    /\ nextId' = nextId + 1
    /\ UNCHANGED backend

\* update_children, lines 101-107: read the parent, add the child to its list
FsLinkRead(s) ==
    /\ backend = "firestore"
    /\ pc[s] = "link_read"
    /\ \E ok \in BOOLEAN :
         LET up == avail[s] /\ ok
             c == cur[s]
             parent == get_whisper(s, c.wid, up)
             msgs == c.msgs \cup Warned(avail[s], ok)
         IN  IF parent = NoNode
             THEN Finish(s, Resp(c.op, msgs \cup {"success"}, c.child, c.wid))
             ELSE /\ Goto(s, "link_write",
                          [c EXCEPT !.msgs = msgs,
                                    !.parent = [parent EXCEPT
                                       !.children = WithChild(parent.children, c.child)]])
                  /\ avail' = [avail EXCEPT ![s] = up]
    /\ UNCHANGED <<backend, store, local, nextId>>

\* update_children, lines 109-115: write the list to the Firestore document, or
\* the whole parent read into the local map; render_detail then shows success
FsLinkWrite(s) ==
    /\ backend = "firestore"
    /\ pc[s] = "link_write"
    /\ \E ok \in BOOLEAN :
         LET up == avail[s] /\ ok /\ Has(store, cur[s].wid)
             c == cur[s]
         IN  /\ IF up
                THEN store' = SetChildren(store, c.wid, c.parent.children) /\ UNCHANGED local
                ELSE local' = [local EXCEPT ![s] = Put(local[s], c.parent)] /\ UNCHANGED store
             /\ Finish(s, Resp(c.op, c.msgs \cup Warned(avail[s], up) \cup {"success"},
                               c.child, c.wid))
    /\ UNCHANGED <<backend, nextId>>

\* ------------------------------------------------------------------ supabase variant
\* whispers_supabase.py: the record render_home posts
SbRootNode(wid, message, motif, phrase, author) ==
    [id |-> wid, message |-> message, motif |-> motif, phrase |-> phrase,
     parent |-> NoId, children |-> <<>>, author |-> author]

\* A remix row that names itself as its parent.
SbSelfParentNode(child_id, w, remix_phrase, remix_author) ==
    [id |-> child_id, message |-> supabase_build_whisper_message(w.message, remix_phrase),
     motif |-> w.motif, phrase |-> remix_phrase,
     parent |-> child_id, children |-> <<>>, author |-> remix_author]

\* whispers_supabase.py: the record view_detail posts for a remix of w
SbRemixNode(child_id, w, remix_phrase, remix_author) ==
    [id |-> child_id, message |-> supabase_build_whisper_message(w.message, remix_phrase),
     motif |-> w.motif, phrase |-> remix_phrase,
     parent |-> w.id, children |-> <<>>, author |-> remix_author]

\* A lookup that answers with a row whatever it is asked for.
GetAnyRow(wid, ok) == [NoNode EXCEPT !.id = wid]

\* supabase_get_by_id(wid): the row, or None when there is none or the request
\* fails
supabase_get_by_id(wid, ok) == IF ok THEN Lookup(store, wid) ELSE NoNode

\* supabase_create_whisper(data) is truthy: the POST was accepted (a row with
\* the same primary key makes it a 409)
supabase_create_whisper(data, ok) == ok /\ ~Has(store, data.id)

\* render_home with "Create whisper" pressed
SbCreate(s, motif, phrase, author) ==
    /\ backend = "supabase"
    /\ pc[s] = "idle"
    /\ LET combined_message == Strip(supabase_build_whisper_message(<<>>, phrase))
           whisper == SbRootNode(nextId, combined_message, motif, phrase, author)
       IN  IF combined_message = <<>>
           THEN /\ Finish(s, Resp("create", {"invalid"}, NoId, NoId))
                /\ UNCHANGED <<store, nextId>>
           ELSE /\ nextId <= MaxIds
                /\ \E ok \in BOOLEAN :
                     IF supabase_create_whisper(whisper, ok)
                     THEN /\ store' = Put(store, whisper)
                          /\ Finish(s, Resp("create", {"success"}, nextId, NoId))
                     ELSE /\ store' = store
                          /\ Finish(s, Resp("create", {"error"}, NoId, NoId))
                /\ nextId' = nextId + 1
    /\ UNCHANGED <<backend, local>>

\* view_detail, lines 304-311: the children shown when the gets of the entries
\* at the indices in `failed` fail (each get is a request of its own)
SbResolved(kids, failed) ==
    LET answered == {i \in 1..Len(kids) : i \notin failed /\ Has(store, kids[i])}
        F[i \in 0..Len(kids)] ==
            IF i = 0 THEN <<>>
            ELSE IF i \in answered THEN Append(F[i - 1], kids[i]) ELSE F[i - 1]
    IN  F[Len(kids)]

\* view_detail(wid), no button pressed
SbView(s, wid) ==
    /\ backend = "supabase"
    /\ pc[s] = "idle"
    /\ \E ok \in BOOLEAN :
         LET w == supabase_get_by_id(wid, ok)
         IN  IF w = NoNode
             THEN Finish(s, Resp("view", Warned(TRUE, ok) \cup {"notfound"}, NoId, NoId))
             ELSE \E failed \in SUBSET (1..Len(w.children)) :
                    Finish(s, [Resp("view",
                                    (IF failed = {} THEN {} ELSE {"error"}) \cup {"shown"},
                                    wid, NoId)
                                 EXCEPT !.kids = SbResolved(w.children, failed)])
    /\ UNCHANGED <<backend, store, local, nextId>>

\* view_detail(wid) with "Submit Remix" pressed, up to the POST
SbRemix(s, wid, remix_phrase, remix_author) ==
    /\ backend = "supabase"
    /\ pc[s] = "idle"
    /\ \E ok \in BOOLEAN :
         LET w == supabase_get_by_id(wid, ok)
         IN  IF w = NoNode
             THEN /\ Finish(s, Resp("remix", Warned(TRUE, ok) \cup {"notfound"}, NoId, NoId))
             ELSE /\ Goto(s, "save", [NoCur EXCEPT !.wid = wid, !.w = w,
                                        !.cont = remix_phrase, !.author = remix_author])
                  /\ UNCHANGED avail
    /\ UNCHANGED <<backend, store, local, nextId>>

\* created = supabase_create_whisper(new_data)
SbSave(s) ==
    /\ backend = "supabase"
    /\ pc[s] = "save"
    /\ nextId <= MaxIds
    /\ \E ok \in BOOLEAN :
         LET c == cur[s]
             new_data == SbRemixNode(nextId, c.w, c.cont, c.author)
         IN  IF supabase_create_whisper(new_data, ok)
             THEN /\ store' = Put(store, new_data)
                  /\ Goto(s, "link_read", [c EXCEPT !.child = nextId])
                  /\ UNCHANGED avail
             ELSE /\ store' = store
                  /\ Finish(s, Resp("remix", {"error"}, NoId, c.wid))
    /\ nextId' = nextId + 1
    /\ UNCHANGED <<backend, local>>

\* supabase_update_children(w.get("id"), child_id), lines 103-109; the row read
\* as w has the id it was asked by
SbLinkRead(s) ==
    /\ backend = "supabase"
    /\ pc[s] = "link_read"
    /\ \E ok \in BOOLEAN :
         LET c == cur[s]
             parent == supabase_get_by_id(c.wid, ok)
         IN  IF parent = NoNode
             THEN Finish(s, Resp(c.op, {"error", "success"}, c.child, c.wid))
             ELSE /\ Goto(s, "link_write",
                          [c EXCEPT !.parent = [parent EXCEPT
                                       !.children = WithChild(parent.children, c.child)]])
                  /\ UNCHANGED avail
    /\ UNCHANGED <<backend, store, local, nextId>>

\* supabase_update_children, lines 110-116: the PATCH; view_detail then shows
\* success
SbLinkWrite(s) ==
    /\ backend = "supabase"
    /\ pc[s] = "link_write"
    /\ \E ok \in BOOLEAN :
         LET c == cur[s]
         IN  IF ok /\ Has(store, c.wid)
             THEN /\ store' = SetChildren(store, c.wid, c.parent.children)
                  /\ Finish(s, Resp(c.op, {"success"}, c.child, c.wid))
             ELSE /\ store' = store
                  /\ Finish(s, Resp(c.op, {"error", "success"}, c.child, c.wid))
    /\ UNCHANGED <<backend, local, nextId>>

\* ------------------------------------------------------------------ retried links
\* The append-child operation called again with the arguments of a call already
\* made: update_children(parent_id, child_id) for a child stored as a remix of
\* parent_id.  `up`: the run's initialisation found Firestore.
FsRelink(s, parent_id, child_id) ==
    /\ backend = "firestore"
    /\ pc[s] = "idle"
    /\ \/ Lookup(store, child_id).parent = parent_id
       \/ Lookup(local[s], child_id).parent = parent_id
    /\ \E up \in BOOLEAN :
         /\ avail' = [avail EXCEPT ![s] = up]
         /\ Goto(s, "link_read", [NoCur EXCEPT !.op = "relink", !.wid = parent_id,
                                    !.child = child_id, !.msgs = Warned(TRUE, up)])
    /\ UNCHANGED <<backend, store, local, nextId>>

\* supabase_update_children(parent_id, child_id) called again
SbRelink(s, parent_id, child_id) ==
    /\ backend = "supabase"
    /\ pc[s] = "idle"
    /\ Lookup(store, child_id).parent = parent_id
    /\ Goto(s, "link_read", [NoCur EXCEPT !.op = "relink", !.wid = parent_id,
                               !.child = child_id])
    /\ UNCHANGED <<backend, store, local, avail, nextId>>

\* ------------------------------------------------------------------ abandoned runs
\* The script run of session s stops where it stands (the browser is closed, the
\* page reruns, the process is stopped): nothing more is written.  What the run
\* loaded (file variant) goes with it.
Abandon(s) ==
    /\ pc[s] # "idle"
    /\ Finish(s, Resp(cur[s].op, {"abandoned"}, cur[s].child, cur[s].wid))
    /\ local' = [local EXCEPT ![s] = IF backend = "file" THEN EmptyStore ELSE local[s]]
    /\ UNCHANGED <<backend, store, nextId>>

\* ------------------------------------------------------------------ links
\* Ids as the text a link carries (a uuid is a str; the builder takes any str).
LinkChars == {"a", " ", "&", "=", "%", "+", "#"}
LinkIds == {<<c>> : c \in LinkChars} \cup {<<c, d>> : c \in LinkChars, d \in LinkChars}

\* Base URLs: empty, origin, origin and path, with a query of their own, with a
\* fragment.  "s" is the scheme, "h" the host.
BaseUrls ==
    { <<>>,
      <<"s", ":", "/", "/", "h">>,
      <<"s", ":", "/", "/", "h", "/">>,
      <<"s", ":", "/", "/", "h", "/", "p">>,
      <<"s", ":", "/", "/", "h", "/", "?", "i", "d", "=", "a">>,
      <<"s", ":", "/", "/", "h", "#", "f">> }

\* The first index of c in t, 0 if there is none.
IndexOf(t, c) ==
    IF \E i \in 1..Len(t) : t[i] = c
    THEN CHOOSE i \in 1..Len(t) : t[i] = c /\ \A j \in 1..(i - 1) : t[j] # c
    ELSE 0

Before(t, c) == IF IndexOf(t, c) = 0 THEN t ELSE SubSeq(t, 1, IndexOf(t, c) - 1)

After(t, c) == IF IndexOf(t, c) = 0 THEN <<>> ELSE SubSeq(t, IndexOf(t, c) + 1, Len(t))

\* str.split(c)
RECURSIVE Split(_, _)
Split(t, c) ==
    IF IndexOf(t, c) = 0 THEN <<t>> ELSE <<Before(t, c)>> \o Split(After(t, c), c)

\* A query writer that leaves every character as it is.
RawChar(c) == <<c>>

\* urllib.parse.quote_plus, one character: letters stay, a space becomes "+",
\* anything else its %XX escape
quote_plus_char(c) ==
    CASE c = " " -> <<"+">>
      [] c = "&" -> <<"%", "2", "6">>
      [] c = "=" -> <<"%", "3", "D">>
      [] c = "%" -> <<"%", "2", "5">>
      [] c = "+" -> <<"%", "2", "B">>
      [] c = "#" -> <<"%", "2", "3">>
      [] OTHER -> <<c>>

RECURSIVE quote_plus(_)
quote_plus(t) == IF t = <<>> THEN <<>> ELSE quote_plus_char(Head(t)) \o quote_plus(Tail(t))

\* urllib.parse.unquote_plus: "+" becomes a space, a %XX escape its character
RECURSIVE unquote_plus(_)
unquote_plus(t) ==
    IF t = <<>> THEN <<>>
    ELSE IF Head(t) = "+" THEN <<" ">> \o unquote_plus(Tail(t))
    ELSE IF Head(t) = "%" /\ Len(t) >= 3
              /\ <<t[2], t[3]>> \in {<<"2", "6">>, <<"3", "D">>, <<"2", "5">>,
                                     <<"2", "B">>, <<"2", "3">>}
    THEN <<CASE <<t[2], t[3]>> = <<"2", "6">> -> "&"
             [] <<t[2], t[3]>> = <<"3", "D">> -> "="
             [] <<t[2], t[3]>> = <<"2", "5">> -> "%"
             [] <<t[2], t[3]>> = <<"2", "B">> -> "+"
             [] <<t[2], t[3]>> = <<"2", "3">> -> "#">>
         \o unquote_plus(SubSeq(t, 4, Len(t)))
    ELSE <<Head(t)>> \o unquote_plus(Tail(t))

\* urlencode({"id": wid, "view": "detail"})
urlencode(wid) ==
    <<"i", "d", "=">> \o quote_plus(wid)
      \o <<"&", "v", "i", "e", "w", "=", "d", "e", "t", "a", "i", "l">>

\* urlparse(base_url): fragment after the first "#", query after the first "?",
\* then scheme "s" before "://", the netloc up to the next "/", the path
urlparse(base_url) ==
    LET rest == Before(Before(base_url, "#"), "?")
        schemed == Len(rest) >= 4 /\ SubSeq(rest, 1, 4) = <<"s", ":", "/", "/">>
        hostpath == IF schemed THEN SubSeq(rest, 5, Len(rest)) ELSE <<>>
    IN  [scheme |-> IF schemed THEN <<"s">> ELSE <<>>,
         netloc |-> Before(hostpath, "/"),
         path |-> IF schemed THEN SubSeq(hostpath, Len(Before(hostpath, "/")) + 1, Len(hostpath))
                  ELSE rest,
         query |-> After(Before(base_url, "#"), "?"),
         fragment |-> After(base_url, "#")]

\* make_link_for_id(base_url, wid), urlunparse with its rules for an empty
\* scheme, netloc or query
make_link_for_id(base_url, wid) ==
    LET parsed == urlparse(base_url)
        path == IF parsed.path = <<>> THEN <<"/">> ELSE parsed.path
        new_query == urlencode(wid)
        url == IF parsed.netloc # <<>>
               THEN <<"/", "/">> \o parsed.netloc \o path
               ELSE path
        schemed == IF parsed.scheme # <<>> THEN parsed.scheme \o <<":">> \o url ELSE url
    IN  IF new_query # <<>> THEN schemed \o <<"?">> \o new_query ELSE schemed

\* st.experimental_get_query_params() of a request for `link`: the values of
\* the query parameter `name`, in order (parse_qs of the text between the
\* first "?" and the first "#")
query_params(link, name) ==
    LET fields == Split(Before(After(link, "?"), "#"), "&")
        named == SelectSeq(fields, LAMBDA f : unquote_plus(Before(f, "=")) = name)
    IN  [i \in 1..Len(named) |-> unquote_plus(After(named[i], "="))]

\* params.get(name, [default])[0]
first_param(link, name, default) ==
    IF query_params(link, name) = <<>> THEN default ELSE query_params(link, name)[1]

\* render_detail shows the share link of wid for the configured BASE_URL.
ShareLink(s, base_url, wid) ==
    /\ pc[s] = "idle"
    /\ shown' = [s |-> s, op |-> "link", base |-> base_url, wid |-> wid,
                 link |-> make_link_for_id(base_url, wid)]
    /\ UNCHANGED <<backend, store, local, avail, pc, cur, nextId, acked,
                   trail_file, motif_file>>

\* A request for the link shown: the routing reads view and id from its query.
FollowLink(s) ==
    /\ pc[s] = "idle"
    /\ shown.op = "link"
    /\ shown' = [s |-> s, op |-> "route", base |-> shown.base, wid |-> shown.wid,
                 link |-> shown.link,
                 current_view |-> first_param(shown.link, <<"v", "i", "e", "w">>,
                                              <<"h", "o", "m", "e">>),
                 current_id |-> first_param(shown.link, <<"i", "d">>, None)]
    /\ UNCHANGED <<backend, store, local, avail, pc, cur, nextId, acked,
                   trail_file, motif_file>>

\* ------------------------------------------------------------------ colliding ids
\* A create whose new_id() returns wid, the id of a node the store already holds
\* (uuid4 draws ids at random and nothing checks them against the store).  The
\* form holds motif "m" and phrase "q".
CollidingPhrase == <<"q">>

\* whispers_campaign.py: whispers[wid] = {...}; save_whispers(whispers)
FileCreateColliding(s, wid) ==
    /\ backend = "file"
    /\ pc[s] = "loaded"
    /\ Has(local[s], wid)
    /\ LET message == Strip(build_whisper_message(<<"m">>, CollidingPhrase))
       IN  store' = Put(local[s], FileRootNode(wid, message, <<"m">>, CollidingPhrase, <<>>))
    /\ Finish(s, Resp("create", {"success"}, wid, NoId))
    /\ local' = [local EXCEPT ![s] = EmptyStore]
    /\ UNCHANGED <<backend, nextId>>

\* whispers_campaign_v1.py: save_whisper(whisper), a document .set(data)
FsCreateColliding(s, wid) ==
    /\ backend = "firestore"
    /\ pc[s] = "idle"
    /\ Has(store, wid)
    /\ \E up \in BOOLEAN :
         /\ save_whisper(s, FsRootNode(wid, FsRootMessage(<<"m">>, CollidingPhrase),
                                       <<"m">>, CollidingPhrase, <<>>), up)
         /\ Finish(s, Resp("create", Warned(TRUE, up) \cup {"success"}, wid, NoId))
    /\ UNCHANGED <<backend, nextId>>

\* whispers_supabase.py: supabase_create_whisper(whisper), a POST of a row whose
\* primary key exists
SbCreateColliding(s, wid) ==
    /\ backend = "supabase"
    /\ pc[s] = "idle"
    /\ Has(store, wid)
    /\ LET combined_message == Strip(supabase_build_whisper_message(<<>>, CollidingPhrase))
           whisper == SbRootNode(wid, combined_message, <<"m">>, CollidingPhrase, <<>>)
       IN  \E ok \in BOOLEAN :
             IF supabase_create_whisper(whisper, ok)
             THEN /\ store' = Put(store, whisper)
                  /\ Finish(s, Resp("create", {"success"}, wid, NoId))
             ELSE /\ store' = store
                  /\ Finish(s, Resp("create", {"error"}, NoId, NoId))
    /\ UNCHANGED <<backend, local, nextId>>

\* ------------------------------------------------------------------ steps
\* Every step sessions S can take with inputs from M, P, A and C; a run starts
\* only while new_id has returned fewer than N ids.
Step(S, N, M, P, A, C) ==
    \/ \E s \in S : nextId <= N /\ load_whispers(s)
    \/ \E s \in S, motif \in M, phrase \in P, author \in A :
         FileCreate(s, motif, phrase, author)
    \/ \E s \in S, wid \in Ids, remix_add \in C, remix_author \in A :
         FileRemix(s, wid, remix_add, remix_author)
    \/ \E s \in S, wid \in Ids : FileView(s, wid)
    \/ \E s \in S, motif \in M, phrase \in P, author \in A :
         nextId <= N /\ FsCreate(s, motif, phrase, author)
    \/ \E s \in S, wid \in Ids : nextId <= N /\ FsView(s, wid)
    \/ \E s \in S, wid \in Ids, remix_add \in C, remix_author \in A :
         nextId <= N /\ FsRemix(s, wid, remix_add, remix_author)
    \/ \E s \in S : FsSave(s)
    \/ \E s \in S : FsLinkRead(s)
    \/ \E s \in S : FsLinkWrite(s)
    \/ \E s \in S, motif \in M, phrase \in P, author \in A :
         nextId <= N /\ SbCreate(s, motif, phrase, author)
    \/ \E s \in S, wid \in Ids : nextId <= N /\ SbView(s, wid)
    \/ \E s \in S, wid \in Ids, remix_phrase \in C, remix_author \in A :
         nextId <= N /\ SbRemix(s, wid, remix_phrase, remix_author)
    \/ \E s \in S : SbSave(s)
    \/ \E s \in S : SbLinkRead(s)
    \/ \E s \in S : SbLinkWrite(s)

\* Concurrent sessions, plain inputs.
Next == Step(Sessions, MaxIds, PlainMotifs, PlainPhrases, PlainAuthors, PlainContinuations)

Spec == Init /\ [][Next]_vars

\* One session, every input.
NextSolo == Step({"s1"}, MaxSoloIds, Motifs, Phrases, Authors, Continuations)

SpecSolo == Init /\ [][NextSolo]_vars

\* One session creating and remixing, plain inputs, and every session retrying
\* links.
NextRetry ==
    \/ Step({"s1"}, MaxSoloIds, PlainMotifs, PlainPhrases, PlainAuthors, PlainContinuations)
    \/ \E s \in Sessions, parent_id \in Ids, child_id \in Ids : FsRelink(s, parent_id, child_id)
    \/ \E s \in Sessions, parent_id \in Ids, child_id \in Ids : SbRelink(s, parent_id, child_id)

SpecRetry == Init /\ [][NextRetry]_vars

\* One session creating and remixing, plain inputs, and creating under an id
\* that is taken.
NextColliding ==
    \/ Step({"s1"}, MaxSoloIds, PlainMotifs, PlainPhrases, PlainAuthors, PlainContinuations)
    \/ \E wid \in Ids : FileCreateColliding("s1", wid)
    \/ \E wid \in Ids : FsCreateColliding("s1", wid)
    \/ \E wid \in Ids : SbCreateColliding("s1", wid)

SpecColliding == Init /\ [][NextColliding]_vars

\* Concurrent sessions, plain inputs, runs abandoned at any point.
NextAbandon ==
    \/ Step(Sessions, MaxSoloIds, PlainMotifs, PlainPhrases, PlainAuthors, PlainContinuations)
    \/ \E s \in Sessions : Abandon(s)

SpecAbandon == Init /\ [][NextAbandon]_vars

\* Share links built and followed.
NextLink ==
    \/ \E base_url \in BaseUrls, wid \in LinkIds : ShareLink("s1", base_url, wid)
    \/ FollowLink("s1")

SpecLink == Init /\ [][NextLink]_vars

\* One session that gives its whispers different motifs and remixes remixes;
\* the other inputs are plain.
NextLineage == Step({"s1"}, MaxIds, Motifs, PlainPhrases, PlainAuthors, PlainContinuations)

SpecLineage == Init /\ [][NextLineage]_vars

\* ------------------------------------------------------------------ trail
\* whispers_v13.py: every interaction runs the script from the top, which loads
\* both files, normalizes them and saves, before the pressed button is handled.
MaxTrail == 2

\* Files left by earlier versions of the program.
OldPlain == [message |-> <<"x">>, link |-> <<"l">>]
OldImage == [motif |-> Thread, message |-> <<"x">>, link |-> <<"l">>,
             image |-> <<"i">>, image_format |-> <<"p">>]
OldStray == [motif |-> Tag("z", NoNum), message |-> <<"y">>, link |-> <<"l">>,
             author |-> <<"b">>, timestamp |-> <<"o", "l", "d">>, remix |-> <<"O", "r", "i", "g">>,
             image |-> <<"j">>, image_format |-> None, image_motif |-> NoTag]
OldTagged == [motif |-> Thread, message |-> <<"x">>, link |-> <<"l">>,
              image |-> <<"i">>, image_format |-> <<"p">>, image_motif |-> Camera]
NotARecord == [str |-> <<"x">>]

LegacyTrails ==
    {<<OldPlain>>, <<OldImage>>, <<OldStray, OldImage>>, <<OldTagged>>, <<NotARecord, OldPlain>>}

LegacyMotifs ==
    {DefaultMotifs,
     [k \in {Thread, Camera} |-> IF k = Thread THEN [str |-> <<"t", "h">>]
                                              ELSE [meaning |-> <<"k">>]],
     [k \in {Camera, Tag("c", 2)} |-> IF k = Camera THEN [other |-> TRUE]
                                                   ELSE Entry(<<"k">>, <<"i">>, <<"p">>)]}

Uploads == {None, <<"i">>}
Spacings == {0, 1}

\* Lines 34-44 and 146-150: what a run holds in memory, and has saved, before
\* any button is handled.
Loaded == normalize_trail(trail_file, normalize_motifs(motif_file))
SavedTrail(r) == IF r.changed THEN r.trail ELSE trail_file

KeepRest == UNCHANGED <<backend, store, local, avail, pc, cur, nextId, acked>>

\* The files of an earlier version are found on disk at the first run.
InstallLegacy(t, m) ==
    /\ trail_file = <<>>
    /\ motif_file = DefaultMotifs
    /\ shown = NoResp
    /\ trail_file' = t
    /\ motif_file' = m
    /\ shown' = [op |-> "install"]
    /\ KeepRest

\* A run in which no button is pressed.
Load ==
    /\ motif_file' = Loaded.motifs
    /\ trail_file' = SavedTrail(Loaded)
    /\ shown' = [op |-> "load", trail |-> Loaded.trail, motif_dict |-> Loaded.motifs,
                 changed |-> Loaded.changed]
    /\ KeepRest

\* Lines 216-218: the trail after the motif k is deleted.
Untagged(trail, k) ==
    [i \in 1..Len(trail) |->
       LET w == trail[i]
           w1 == IF Get(w, "motif", NoTag) = k THEN Set(w, "motif", Thread) ELSE w
       IN  IF Get(w1, "image_motif", NoTag) = k THEN Set(w1, "image_motif", NoTag) ELSE w1]

\* The Delete button of motif k, and the rerun it asks for.
DeleteMotif(k) ==
    /\ k \in DOMAIN Loaded.motifs
    /\ LET trail == Untagged(Loaded.trail, k)
           motif_dict == [j \in DOMAIN Loaded.motifs \ {k} |-> Loaded.motifs[j]]
           rerun == normalize_trail(trail, normalize_motifs(motif_dict))
       IN  /\ motif_file' = rerun.motifs
           /\ trail_file' = IF rerun.changed THEN rerun.trail ELSE trail
           /\ shown' = [op |-> "delete", key |-> k, before |-> Loaded.trail,
                        trail |-> trail, motif_dict |-> motif_dict]
    /\ KeepRest

\* Lines 267-268: blanks are put between the characters of the motif; a motif
\* of one character stays as it is.  (The font styles change ASCII letters
\* only, and the tags here are emoji and digits.)
Spaced(tag, spacing) == IF tag.num = NoNum THEN tag ELSE [tag EXCEPT !.gap = spacing]

\* The form "Generate & Post".
Post(motif_selected, spacing, message, link, uploaded_image) ==
    /\ Len(Loaded.trail) < MaxTrail
    /\ motif_selected \in DOMAIN Loaded.motifs
    /\ LET posts == message # <<>> /\ link # <<>>
           tag == generate_image_motif_tag(Loaded.motifs)
           motif_dict == IF posts /\ uploaded_image # None
                         THEN Set(Loaded.motifs, tag,
                                  Entry(<<"w", "i">>, uploaded_image, <<"p">>))
                         ELSE Loaded.motifs
           whisper == [motif |-> Spaced(motif_selected, spacing),
                       message |-> message,
                       link |-> link,
                       author |-> <<"A", "n", "o", "n">>,
                       timestamp |-> Now,
                       remix |-> <<"O", "r", "i", "g">>,
                       image_motif |-> IF uploaded_image # None THEN tag ELSE NoTag]
       IN  /\ motif_file' = motif_dict
           /\ trail_file' = IF posts THEN <<whisper>> \o Loaded.trail ELSE SavedTrail(Loaded)
           /\ shown' = [op |-> "post", posted |-> posts,
                        trail |-> IF posts THEN <<whisper>> \o Loaded.trail ELSE Loaded.trail,
                        motif_dict |-> motif_dict]
    /\ KeepRest

\* normalize_trail applied to a trail and a library, and again to what it returned.
NormalizeTwice(trail_list, m_dict) ==
    /\ LET first == normalize_trail(trail_list, normalize_motifs(m_dict))
           second == normalize_trail(first.trail, first.motifs)
       IN  shown' = [op |-> "normalize", given |-> trail_list, first |-> first, second |-> second]
    /\ UNCHANGED <<trail_file, motif_file>>
    /\ KeepRest

NextTrail ==
    \/ \E t \in LegacyTrails, m \in LegacyMotifs : InstallLegacy(t, m)
    \/ Load
    \/ \E k \in DOMAIN Loaded.motifs : DeleteMotif(k)
    \/ \E k \in DOMAIN Loaded.motifs, spacing \in Spacings, message \in {<<>>, <<"x">>},
          uploaded_image \in Uploads : Post(k, spacing, message, <<"l">>, uploaded_image)
    \/ NormalizeTwice(trail_file, motif_file)

SpecTrail == Init /\ [][NextTrail]_vars

\* ------------------------------------------------------------------ properties
\* Every store a reader can read from: the durable one and the sessions' maps.
AllStores == {store} \cup {local[s] : s \in Sessions}

Quiet == \A s \in Sessions : pc[s] = "idle"

\* C1: No lost update.  Once every run has finished, of any two remixes of the
\* same parent that ended in plain success both children are in the parent's
\* persisted children list exactly once.
NoLostUpdate ==
    Quiet => \A e1 \in acked, e2 \in acked :
               e1 # e2 /\ e1[1] = e2[1] /\ Has(store, e1[1])
                 => /\ Count(store[e1[1]].children, e1[2]) = 1
                    /\ Count(store[e1[1]].children, e2[2]) = 1

\* C2: Write child first, link second (I5).  In every store, the fallback maps
\* included, every id in a children list is the id of a node of that same store.
ChildBeforeLink ==
    \A st \in AllStores : \A p \in DOMAIN st :
        \A i \in 1..Len(st[p].children) : Has(st, st[p].children[i])

NoDuplicateChild ==
    \A st \in AllStores : \A p \in DOMAIN st :
        \A i \in 1..Len(st[p].children), j \in 1..Len(st[p].children) :
            i # j => st[p].children[i] # st[p].children[j]

\* C3: Idempotent linking (I3).  No child id occurs more than once in any
\* children list of any store, and when the append-child operation, called again
\* for a child of the parent, has written the parent's list, the list holds the
\* child exactly once.
LinkedOnce ==
    /\ NoDuplicateChild
    /\ shown.op = "relink" /\ shown.msgs = {"success"} /\ Has(store, shown.parent)
         => Count(store[shown.parent].children, shown.id) = 1

\* A link that a remix had already written has been written again.
LinkedTwice ==
    /\ shown.op = "relink"
    /\ shown.msgs = {"success"}
    /\ <<shown.parent, shown.id>> \in acked
    /\ Count(store[shown.parent].children, shown.id) = 1

\* The step that ends a remix run of session s with plain success.
RemixCompleted(s) ==
    /\ pc[s] # "idle"
    /\ pc'[s] = "idle"
    /\ shown'.s = s
    /\ shown'.op = "remix"
    /\ shown'.msgs = {"success"}

\* What the remix that just completed left behind, x being the continuation the
\* message is to end in.
RemixPost(x) ==
    LET p == shown'.parent
        c == shown'.id
    IN  /\ Has(store, p)
        /\ Has(store', p)
        /\ store'[p].children = Append(store[p].children, c)
        /\ Has(store', c)
        /\ store'[c].parent = p
        /\ store'[c].message = store[p].message \o Separator \o x

\* C4: A remix of an existing parent with a continuation x whose trimmed form is
\* not empty, completing with plain success and no concurrent operation, appends
\* the new child id to the parent's children list and stores a child whose
\* parent field is the parent id and whose message is the parent's message, the
\* separator, and x trimmed.
RemixAppendsTrimmed ==
    [][ /\ \A s \in Sessions, wid \in Ids, x \in Continuations, a \in Authors :
             FileRemix(s, wid, x, a) /\ RemixCompleted(s) /\ Strip(x) # <<>>
               => RemixPost(Strip(x))
        /\ \A s \in Sessions :
             backend # "file" /\ RemixCompleted(s) /\ Strip(cur[s].cont) # <<>>
               => RemixPost(Strip(cur[s].cont)) ]_vars

\* C4 as the specification words it: the message ends in x as it was given.
RemixAppendsGiven ==
    [][ /\ \A s \in Sessions, wid \in Ids, x \in Continuations, a \in Authors :
             FileRemix(s, wid, x, a) /\ RemixCompleted(s) /\ x # <<>>
               => RemixPost(x)
        /\ \A s \in Sessions :
             backend # "file" /\ RemixCompleted(s) /\ cur[s].cont # <<>>
               => RemixPost(cur[s].cont) ]_vars

\* A remix has completed and its child reads parent message, separator, "c".
RemixShown ==
    /\ shown.op = "remix"
    /\ shown.msgs = {"success"}
    /\ Has(store, shown.id)
    /\ Has(store, shown.parent)
    /\ Contains(store[shown.parent].children, shown.id)
    /\ store[shown.id].message = store[shown.parent].message \o Separator \o <<"c">>

\* The create handler of the deployment's variant.
Create(s, motif, phrase, author) ==
    \/ FileCreate(s, motif, phrase, author)
    \/ FsCreate(s, motif, phrase, author)
    \/ SbCreate(s, motif, phrase, author)

\* A field holds what was supplied; a field left empty may be held as None.
Holds(field, supplied) == field = supplied \/ (supplied = <<>> /\ field = None)

\* The author a create stores: trimmed by the file variant, as given by the others.
StoredAuthor(author) == IF backend = "file" THEN Strip(author) ELSE author

\* What reading the node a create has just stored returns.
CreatePost(motif, phrase, author) ==
    /\ Has(store', shown'.id)
    /\ LET node == store'[shown'.id]
       IN  /\ node.parent = NoId
           /\ node.children = <<>>
           /\ node.motif = motif
           /\ node.phrase = phrase
           /\ Holds(node.author, author)

\* C5: Creating a root with plain success and then reading the node by its id
\* returns a node with parent None, an empty children list, the motif and phrase
\* as supplied, and the author as supplied except that the file variant trims it
\* (an author left empty may be held as None).
CreateKeepsFields ==
    [][ \A s \in Sessions, motif \in Motifs, phrase \in Phrases, author \in Authors :
          Create(s, motif, phrase, author) /\ shown'.msgs = {"success"}
            => CreatePost(motif, phrase, StoredAuthor(author)) ]_vars

\* C5 as the specification words it: the author is held as supplied.
CreateKeepsAuthor ==
    [][ \A s \in Sessions, motif \in Motifs, phrase \in Phrases, author \in Authors :
          Create(s, motif, phrase, author) /\ shown'.msgs = {"success"}
            => CreatePost(motif, phrase, author) ]_vars

\* A create with an untrimmed motif has stored its root.
RootShown ==
    /\ shown.op = "create"
    /\ shown.msgs = {"success"}
    /\ Has(store, shown.id)
    /\ store[shown.id].parent = NoId
    /\ store[shown.id].motif = <<" ">>

\* C6: Creating a root whose composed message is empty after trimming is
\* rejected and stores nothing, so no persisted node has an empty message.
NoEmptyMessage == \A p \in DOMAIN store : Strip(store[p].message) # <<>>

\* The remix handler of the deployment's variant, up to its first storage call.
Remix(s, wid, remix_add, remix_author) ==
    \/ FileRemix(s, wid, remix_add, remix_author)
    \/ FsRemix(s, wid, remix_add, remix_author)
    \/ SbRemix(s, wid, remix_add, remix_author)

\* The view handler of the deployment's variant.
View(s, wid) == FileView(s, wid) \/ FsView(s, wid) \/ SbView(s, wid)

\* C7: A remix of an existing node whose continuation is empty after trimming
\* ends at once as invalid input, in every variant, and leaves the store as it
\* was.
BlankRemixRejected ==
    [][ \A s \in Sessions, wid \in Ids, x \in Continuations, a \in Authors :
          Remix(s, wid, x, a) /\ Strip(x) = <<>> /\ "notfound" \notin shown'.msgs
            => "invalid" \in shown'.msgs /\ store' = store ]_vars

\* The id resolves to no node for a run of session s: it is not in the dict the
\* run loaded (file), in neither the collection nor the session's map
\* (firestore), not in the table (supabase).
Unresolved(s, wid) ==
    CASE backend = "file" -> ~Has(local[s], wid)
      [] backend = "firestore" -> ~Has(store, wid) /\ ~Has(local[s], wid)
      [] backend = "supabase" -> ~Has(store, wid)

\* C8: A remix or a read of an id that resolves to no node ends as not found,
\* stores no node and changes no children list.
NotFoundKept ==
    [][ \A s \in Sessions, wid \in Ids, x \in PlainContinuations, a \in PlainAuthors :
          Unresolved(s, wid) /\ (Remix(s, wid, x, a) \/ View(s, wid))
            => /\ "notfound" \in shown'.msgs
               /\ shown'.s = s
               /\ pc'[s] = "idle"
               /\ store' = store
               /\ nextId' = nextId
               /\ backend # "file" => local' = local ]_vars

\* A remix has ended as not found while the store holds nodes.
NotFoundShown ==
    /\ shown.op = "remix"
    /\ "notfound" \in shown.msgs
    /\ store # EmptyStore

\* C9: A remix whose child was persisted reports success only if the child is
\* in the parent's persisted children list.
SuccessMeansLinked ==
    shown.op = "remix" /\ "success" \in shown.msgs /\ Has(store, shown.id)
      => /\ Has(store, shown.parent)
         /\ Contains(store[shown.parent].children, shown.id)

\* C10: A create or a remix reports success only when its node is in the
\* configured backend.
SuccessMeansDurable ==
    shown.op \in {"create", "remix"} /\ "success" \in shown.msgs
      => Has(store, shown.id)

\* A create of session s under the taken id wid.
CreateColliding(s, wid) ==
    \/ FileCreateColliding(s, wid)
    \/ FsCreateColliding(s, wid)
    \/ SbCreateColliding(s, wid)

\* C11: Persisting a node whose id the store already holds never reports
\* success and leaves the store, the existing record with it, as it was.
PutNeverOverwrites ==
    [][ \A s \in Sessions, wid \in Ids :
          CreateColliding(s, wid)
            => "success" \notin shown'.msgs /\ store' = store ]_vars

\* The write-once fields of a record (the model carries no timestamp).
Fixed(node) == <<node.id, node.message, node.motif, node.phrase, node.author, node.parent>>

\* Every node that st holds and st2 still holds has the same write-once fields.
SameFixed(st, st2) ==
    \A wid \in DOMAIN st \cap DOMAIN st2 : Fixed(st2[wid]) = Fixed(st[wid])

\* C12: Immutability (I2).  No step changes the id, message, motif, phrase,
\* author or parent of a node a store holds, in the durable store or in a
\* session's map, and the copies of a node in different stores agree on them.
FieldsWriteOnce ==
    [][ /\ SameFixed(store, store')
        /\ \A s \in Sessions : SameFixed(local[s], local'[s])
        /\ \A s \in Sessions : SameFixed(store', local'[s]) ]_vars

\* A remix has changed the children of a parent that still reads as created.
ChildrenChanged ==
    /\ shown.op = "remix"
    /\ shown.msgs = {"success"}
    /\ Has(store, shown.parent)
    /\ store[shown.parent].children # <<>>
    /\ store[shown.parent].motif = <<"m">>
    /\ store[shown.parent].id = shown.parent

IsPrefix(a, b) == Len(a) <= Len(b) /\ SubSeq(b, 1, Len(a)) = a

\* C13: Append-only children.  Across every step, the persisted children list
\* of a parent before the step is a prefix of its persisted children list after
\* the step.
ChildrenOnlyGrow ==
    [][ \A p \in DOMAIN store \cap DOMAIN store' :
          IsPrefix(store[p].children, store'[p].children) ]_vars

\* The ids reached from wid by following parent up to n times within st.
RECURSIVE Ancestors(_, _, _)
Ancestors(st, wid, n) ==
    IF n = 0 \/ ~Has(st, wid) \/ st[wid].parent = NoId
    THEN {}
    ELSE {st[wid].parent} \cup Ancestors(st, st[wid].parent, n - 1)

NoCycle(st) ==
    \A wid \in DOMAIN st : wid \notin Ancestors(st, wid, Cardinality(DOMAIN st))

ChildrenPointBack(st) ==
    \A p \in DOMAIN st : \A i \in 1..Len(st[p].children) :
        LET c == st[p].children[i]
        IN  Has(st, c) => st[c].parent = p

\* C14: Forest invariant (I1).  In every store the parent relation has no
\* cycle, and every id in a node's children list that resolves in that store
\* resolves to a node whose parent field is that node's id.
Forest == \A st \in AllStores : NoCycle(st) /\ ChildrenPointBack(st)

\* The store holds a chain of three: a linked remix of a linked remix.
ChainStored ==
    \E c \in DOMAIN store :
        LET p == store[c].parent
        IN  /\ p # NoId
            /\ Has(store, p)
            /\ Contains(store[p].children, c)
            /\ store[p].parent # NoId
            /\ Has(store, store[p].parent)
            /\ Contains(store[store[p].parent].children, p)

\* C15: Creates under distinct ids are independent.  No step of one session
\* removes a node another create has persisted: every persisted node is
\* persisted after the step.
NodesStay == [][ \A wid \in DOMAIN store : Has(store', wid) ]_vars

\* C16: Every append-child invocation ends in one of two outcomes: the child id
\* is in the parent's persisted children list, or an explicit contention error
\* is reported.
AppendEndsDecided ==
    shown.op \in {"remix", "relink"} /\ shown.id # NoId
      => \/ Has(store, shown.parent) /\ Contains(store[shown.parent].children, shown.id)
         \/ "contention" \in shown.msgs

\* The entries of kids that are in the set S, in the order of kids.
Keep(kids, S) == SelectSeq(kids, LAMBDA c : c \in S)

\* a can be had from b by leaving entries out.
RECURSIVE IsSubseq(_, _)
IsSubseq(a, b) ==
    IF a = <<>> THEN TRUE
    ELSE IF b = <<>> THEN FALSE
    ELSE IF Head(a) = Head(b) THEN IsSubseq(Tail(a), Tail(b))
    ELSE IsSubseq(a, Tail(b))

\* What a Firestore-variant view of wid may list.  With no warning shown every
\* lookup was answered by Firestore; with a warning, either all were answered
\* from the session's map, or Firestore answered up to some entry and the map
\* from there on.  Each time: the entries that resolve where they are looked up.
FsListings(s, wid, warned) ==
    {Keep(local[s][wid].children, DOMAIN local[s]) :
       x \in {y \in {wid} : warned /\ Has(local[s], y)}}
      \cup {Keep(SubSeq(store[wid].children, 1, k), DOMAIN store)
              \o Keep(SubSeq(store[wid].children, k + 1, Len(store[wid].children)),
                      DOMAIN local[s]) :
            k \in {j \in 0..MaxIds :
                     /\ Has(store, wid)
                     /\ j <= Len(store[wid].children)
                     /\ warned <=> j < Len(store[wid].children)}}

\* C17: Resolving a node's children skips every entry that does not resolve and
\* returns every entry that does, in the order of the children list: a view
\* that shows a node lists exactly the entries of its children list that the
\* lookups resolve, in order.
ListsResolved ==
    [][ \A s \in Sessions, wid \in Ids :
          View(s, wid) /\ "shown" \in shown'.msgs
            => LET listed == shown'.kids
               IN  CASE backend = "file" ->
                          listed = Keep(local[s][wid].children, DOMAIN local[s])
                     [] backend = "firestore" ->
                          listed \in FsListings(s, wid, "warning" \in shown'.msgs)
                     [] backend = "supabase" ->
                          /\ IsSubseq(listed, store[wid].children)
                          /\ \A i \in 1..Len(listed) : Has(store, listed[i])
                          /\ "error" \notin shown'.msgs
                               => listed = Keep(store[wid].children, DOMAIN store) ]_vars

\* A view has read a parent from the session's map and left out a child the
\* map does not hold.
EntrySkipped ==
    /\ backend = "firestore"
    /\ shown.op = "view"
    /\ {"shown", "warning"} \subseteq shown.msgs
    /\ Has(store, shown.id)
    /\ store[shown.id].children = <<>>
    /\ Has(local[shown.s], shown.id)
    /\ Len(shown.kids) < Len(local[shown.s][shown.id].children)

\* C18: Link builder round trip and determinism.  The link shown for a base URL
\* and an id is the one link the builder gives for them; the query of a request
\* for it carries view=detail and an id parameter that parses to the id the
\* link was built for.
LinkRoundTrip ==
    /\ shown.op = "link" => shown.link = make_link_for_id(shown.base, shown.wid)
    /\ shown.op = "route"
         => /\ shown.current_view = <<"d", "e", "t", "a", "i", "l">>
            /\ shown.current_id = shown.wid
            /\ query_params(shown.link, <<"i", "d">>) = <<shown.wid>>

\* A link for an id of reserved characters, built on a base URL that has a
\* query of its own, has been followed.
ReservedIdFollowed ==
    /\ shown.op = "route"
    /\ shown.wid = <<"&", "=">>
    /\ IndexOf(shown.base, "?") # 0
    /\ shown.current_id = <<"&", "=">>

\* No id is used twice: every record is kept under its own id, and new_id has
\* handed out every id a store holds.
IdsUnique ==
    \A st \in AllStores : \A wid \in DOMAIN st : st[wid].id = wid /\ wid < nextId

\* The child of the remix that was abandoned is persisted, as a remix of the
\* parent, and not linked.
AbandonedUnlinked ==
    /\ shown.op = "remix"
    /\ shown.msgs = {"abandoned"}
    /\ Has(store, shown.id)
    /\ store[shown.id].parent = shown.parent
    /\ Has(store, shown.parent)
    /\ ~Contains(store[shown.parent].children, shown.id)

\* C19: Cancellation safety.  With remix runs abandoned at any point, every
\* state still satisfies I1 to I4: no cycle and no child listed under a node
\* that is not its parent, no duplicate child id, no reused id, and no step
\* changes a field other than children.
AbandonKeepsInvariants ==
    [][ /\ Forest'
        /\ NoDuplicateChild'
        /\ IdsUnique'
        /\ SameFixed(store, store')
        /\ \A s \in Sessions : SameFixed(local[s], local'[s])
        /\ \A s \in Sessions : Abandon(s) => store' = store ]_vars

ParentsIn(st) == \A wid \in DOMAIN st : st[wid].parent # NoId => Has(st, st[wid].parent)

\* C20: Referential integrity of parent.  In every store, the durable one and
\* every session's map, every node with a parent holds the id of a node of that
\* same store.
ParentPersisted == \A st \in AllStores : ParentsIn(st)


\* C21: deleting a motif changes the motif library only: the trail has the same
\* number of records as before the deletion, and every record has the fields
\* it had, motif and image_motif included.
DeleteKeepsTrail ==
    shown.op = "delete" =>
        /\ Len(shown.trail) = Len(shown.before)
        /\ shown.trail = shown.before

\* C22: normalize_trail is idempotent: applied to the records and the library
\* it returned, it returns the same records, with the same keys and values,
\* and the same library, and reports no change.
NormalizeIdempotent ==
    shown.op = "normalize" =>
        /\ shown.second.trail = shown.first.trail
        /\ shown.second.motifs = shown.first.motifs
        /\ ~shown.second.changed

\* In st, every node whose parent is a node of st has that parent's motif.
MotifFromParent(st) ==
    \A wid \in DOMAIN st :
        Has(st, st[wid].parent) => st[wid].motif = st[st[wid].parent].motif

\* In st, every node has the motif of every ancestor it can be traced to.
MotifFromRoot(st) ==
    \A wid \in DOMAIN st :
        \A a \in Ancestors(st, wid, Cardinality(DOMAIN st)) :
            Has(st, a) => st[wid].motif = st[a].motif

\* C23: Motif inheritance.  In every store, the durable one and every session's
\* map, a node with a resolvable parent has the motif of that parent, and so
\* the motif of every ancestor up to the root of its tree.
MotifInherited == \A st \in AllStores : MotifFromParent(st) /\ MotifFromRoot(st)

\* The store holds a remix of a remix under a root whose motif is blank.
BlankLineage ==
    \E c \in DOMAIN store :
        LET p == store[c].parent
        IN  /\ Has(store, p)
            /\ store[p].parent # NoId
            /\ Has(store, store[p].parent)
            /\ store[store[p].parent].motif \in {<<>>, <<" ">>}
            /\ store[c].motif = store[store[p].parent].motif

====
